---- MODULE Spec2Model ----
(***************************************************************************)
(* Model of freecad_finder.py: get_freecad_lib_root (discovery of the      *)
(* FreeCAD library root from the captured output of a FreeCAD subprocess)  *)
(* and add_freecad_dirs_to_syspath (mutation of sys.path).                 *)
(*                                                                         *)
(* Strings are sequences of tokens.  A token is either the path separator  *)
(* "/", the line terminator "\n", the home shorthand "~", or one whole     *)
(* file name / word.  Path and line functions of the Python library are    *)
(* modelled on these sequences by what they do.                            *)
(***************************************************************************)
EXTENDS Integers, Sequences, FiniteSets, TLC

VARIABLES environ, fs, child, sys_path, call, ret, ncalls

vars == <<environ, fs, child, sys_path, call, ret, ncalls>>

\* ------------------------------------------------------------------ bounds
MaxCalls == 2
MaxEntries == 2
MaxLines == 4

\* ------------------------------------------------------- string constants
SEP == "/"
NL == "\n"
None == <<"<None>">>

_magic_first_line == <<"Freecad python working!">>
_line_before_sys_version == <<"sys.version:">>
\* the list with its last entry forgotten
required_subdirs_NoExt == <<"Mod", "lib">>
required_subdirs == <<"Mod", "lib", "Ext">>
main_freecad_lib == <<"FreeCAD.so">>
freecad_lib_root_envvar == "FREECAD_LIB_ROOT"
freecad_exe_envvar == "FREECAD_EXECUTABLE"
DefaultExecutable == <<"FreeCAD">>
TempName == <<"/", "tmp", "/", "tmpXXXX.py">>
HomeDir == <<"/", "home">>
Cwd == <<"u">>
\* sys.version of the calling interpreter (two lines, as CPython prints it)
sys_version == <<"3.9.7", NL, "[GCC]">>

\* ------------------------------------------------------ sequence helpers
Last(s) == s[Len(s)]

RECURSIVE Reverse(_)
Reverse(s) == IF s = <<>> THEN <<>> ELSE Append(Reverse(Tail(s)), Head(s))

\* index of the last occurrence of t in s, 0 if none (str.rfind + 1)
RECURSIVE RFind1(_, _)
RFind1(s, t) ==
    IF s = <<>> THEN 0
    ELSE IF Last(s) = t THEN Len(s)
    ELSE RFind1(SubSeq(s, 1, Len(s) - 1), t)

\* str.rstrip('/')
RECURSIVE RStripSep(_)
RStripSep(s) ==
    IF s # <<>> /\ Last(s) = SEP THEN RStripSep(SubSeq(s, 1, Len(s) - 1))
    ELSE s

AllSep(s) == \A i \in 1..Len(s) : s[i] = SEP

\* ------------------------------------------------------------- os.path
\* posixpath.join(a, b)
Join(a, b) ==
    IF b # <<>> /\ b[1] = SEP THEN b
    ELSE IF a = <<>> \/ Last(a) = SEP THEN a \o b
    ELSE a \o <<SEP>> \o b

\* posixpath.split(p): <<head, tail>>
Split(p) ==
    LET i == RFind1(p, SEP)
        head == SubSeq(p, 1, i)
        tail == SubSeq(p, i + 1, Len(p))
    IN  IF head # <<>> /\ ~AllSep(head) THEN <<RStripSep(head), tail>>
        ELSE <<head, tail>>

\* posixpath.expanduser(p), for the "~" and "~/..." forms
expanduser(p) ==
    IF p # <<>> /\ p[1] = "~" /\ (Len(p) = 1 \/ p[2] = SEP)
    THEN (IF RStripSep(HomeDir) = <<>> THEN <<SEP>> ELSE RStripSep(HomeDir))
         \o SubSeq(p, 2, Len(p))
    ELSE p

\* ----------------------------------------------------------- file system
\* A file system is [dirs, files]: sets of canonical paths, a canonical
\* path being the sequence of names from the root directory <<>>.
IsName(t) == t # SEP
Components(p) == SelectSeq(p, IsName)

\* the canonical path a path string names (kernel path resolution)
Canonical(p) ==
    IF p # <<>> /\ p[1] = SEP THEN Components(p) ELSE Cwd \o Components(p)

\* os.path.isdir
IsDir(f, p) == p # <<>> /\ Canonical(p) \in f.dirs

\* os.path.exists
Exists(f, p) ==
    /\ p # <<>>
    /\ \/ Canonical(p) \in f.dirs
       \/ Canonical(p) \in f.files /\ Last(p) # SEP

\* os.listdir, as canonical paths
Children(f, d) ==
    {c \in f.dirs \cup f.files :
        Len(c) = Len(d) + 1 /\ SubSeq(c, 1, Len(d)) = d}

R == <<"r">>
BaseDirs == {<<>>, Cwd, <<"home">>, <<"tmp">>, R}

fsFull ==
    [dirs |-> BaseDirs \cup {R \o <<"Mod">>, R \o <<"lib">>, R \o <<"Ext">>,
                             R \o <<"Mod", "m1">>, R \o <<"Mod", ".git">>},
     files |-> {R \o <<"lib", "FreeCAD.so">>, R \o <<"Mod", "FreeCAD.so">>}]

\* as fsFull, with a Mod/lib/Ext layout repeated below the lib directory
fsNested ==
    [dirs |-> fsFull.dirs \cup {R \o <<"Mod", "m2">>,
                                R \o <<"lib", "Mod">>, R \o <<"lib", "lib">>,
                                R \o <<"lib", "Ext">>},
     files |-> fsFull.files]

\* as fsFull, without the Ext directory
fsNoExt ==
    [dirs |-> fsFull.dirs \ {R \o <<"Ext">>}, files |-> fsFull.files]

FileSystems == {fsFull, fsNested, fsNoExt}

\* ------------------------------------------------------- line handling
RECURSIVE Find1(_, _)
\* index of the first occurrence of t in s, 0 if none
Find1(s, t) ==
    IF s = <<>> THEN 0
    ELSE IF Head(s) = t THEN 1
    ELSE LET k == Find1(Tail(s), t) IN IF k = 0 THEN 0 ELSE k + 1

\* str.splitlines()
RECURSIVE splitlines(_)
splitlines(s) ==
    IF s = <<>> THEN <<>>
    ELSE LET i == Find1(s, NL)
         IN  IF i = 0 THEN <<s>>
             ELSE <<SubSeq(s, 1, i - 1)>> \o splitlines(SubSeq(s, i + 1, Len(s)))

\* '\n'.join(ls)
RECURSIVE JoinLines(_)
JoinLines(ls) ==
    IF ls = <<>> THEN <<>>
    ELSE IF Len(ls) = 1 THEN ls[1]
    ELSE ls[1] \o <<NL>> \o JoinLines(Tail(ls))

\* what the child prints: every line followed by the line terminator
RECURSIVE PrintLines(_)
PrintLines(ls) ==
    IF ls = <<>> THEN <<>> ELSE Head(ls) \o <<NL>> \o PrintLines(Tail(ls))

\* -------------------------------------------------- get_freecad_lib_root
\* outcome of one call; kind is "return" or the name of the exception
\* raised, line the source line of the return or raise statement
NoResult ==
    [kind |-> "none", line |-> 0, value |-> <<>>, cands |-> <<>>,
     returncode |-> 0,
     spawned |-> FALSE, cmd |-> <<>>, warned |-> FALSE, parsed |-> FALSE,
     freecad_sys_path |-> <<>>, freecad_sys_version |-> <<>>]

Raise(r, k, l) == [r EXCEPT !.kind = k, !.line = l]
Return(r, v, l) == [r EXCEPT !.kind = "return", !.value = v, !.line = l]

\* the override root giving way to an executable named in the environment
UseOverride_ExeFirst(env) ==
    /\ freecad_lib_root_envvar \in DOMAIN env
    /\ freecad_exe_envvar \notin DOMAIN env

\* line 68: is the override root taken
UseOverride(env) == freecad_lib_root_envvar \in DOMAIN env

\* lines 76-90: the executable reference
Executable(freecad_executable, env) ==
    IF freecad_executable # None THEN expanduser(freecad_executable)
    ELSE IF freecad_exe_envvar \in DOMAIN env
         THEN expanduser(env[freecad_exe_envvar])
         ELSE DefaultExecutable

\* line 102
freecad_cmd(freecad_executable, env) ==
    Executable(freecad_executable, env) \o <<" -c ">> \o TempName

\* lines 144-150: the index (from 0) of _line_before_sys_version.
\* NoIdx stands for None, DupIdx for the failed assertion of line 147.
NoIdx == 0 - 1
DupIdx == 0 - 2
RECURSIVE ScanVidx(_, _, _)
ScanVidx(lines, i, vidx) ==
    IF i = Len(lines) THEN vidx
    ELSE IF lines[i + 1] = _line_before_sys_version
         THEN (IF vidx # NoIdx THEN DupIdx ELSE ScanVidx(lines, i + 1, i))
         ELSE ScanVidx(lines, i + 1, vidx)

\* the slice taken one line too far
PathLines_OffByOne(lines, vidx) == SubSeq(lines, 1, vidx + 1)

\* line 156: lines[:vidx]
PathLines(lines, vidx) == SubSeq(lines, 1, vidx)

\* line 157: '\n'.join(lines[(vidx + 1):])
VersionString(lines, vidx) == JoinLines(SubSeq(lines, vidx + 2, Len(lines)))

\* lines 176-179
RECURSIVE freecad_lib_subdirs(_, _)
freecad_lib_subdirs(f, path) ==
    IF path = <<>> THEN <<>>
    ELSE (IF Exists(f, Join(Head(path), main_freecad_lib))
          THEN <<Head(path)>> ELSE <<>>) \o freecad_lib_subdirs(f, Tail(path))

\* line 181: the test for no candidate
NoCandidate(subdirs) == Len(subdirs) = 0

\* the test for several candidates letting two pass
Ambiguous_OffByOne(subdirs) == Len(subdirs) > 2

\* line 185: the test for several candidates
Ambiguous(subdirs) == Len(subdirs) > 1

\* lines 192-193
RECURSIVE SubdirsPresent(_, _, _)
SubdirsPresent(f, root, subdirs) ==
    IF subdirs = <<>> THEN TRUE
    ELSE /\ IsDir(f, Join(root, <<Head(subdirs)>>))
         /\ SubdirsPresent(f, root, Tail(subdirs))

\* lines 175-204
LocateRoot(f, r) ==
    LET subdirs == freecad_lib_subdirs(f, r.freecad_sys_path)
        root == Split(subdirs[1])[1]
    IN  IF NoCandidate(subdirs) THEN Raise(r, "IOError", 182)
        ELSE IF Ambiguous(subdirs)
             THEN [Raise(r, "RuntimeError", 186) EXCEPT !.cands = subdirs]
        ELSE IF ~SubdirsPresent(f, root, required_subdirs)
             THEN Raise(r, "AssertionError", 193)
        ELSE Return(r, root, 204)

\* lines 138-162
ParseLines(f, r, lines0) ==
    LET lines == Tail(lines0)
        vidx == ScanVidx(lines, 0, NoIdx)
    IN  IF vidx = DupIdx THEN Raise(r, "AssertionError", 147)
        ELSE IF vidx = NoIdx THEN Raise(r, "AssertionError", 150)
        ELSE LET p == [r EXCEPT !.parsed = TRUE,
                          !.freecad_sys_path = PathLines(lines, vidx),
                          !.freecad_sys_version = VersionString(lines, vidx)]
             IN  LocateRoot(f, [p EXCEPT !.warned =
                                   (sys_version # p.freecad_sys_version)])

\* lines 95-131: proc is what the subprocess does when it is started
RunDiagnostic(f, r, proc) ==
    IF ~proc.launched THEN Raise(r, "OSError", 115)
    ELSE IF proc.returncode = 0 THEN Raise(r, "AssertionError", 117)
    ELSE LET lines == splitlines(proc.output)
         IN  IF lines = <<>> THEN Raise(r, "IndexError", 129)
             ELSE IF lines[1] # _magic_first_line
                  THEN [Raise(r, "CalledProcessError", 131) EXCEPT
                           !.value = proc.output,
                           !.returncode = proc.returncode]
             ELSE ParseLines(f, r, lines)

\* lines 50-204
get_freecad_lib_root(freecad_executable, env, f, proc) ==
    IF UseOverride(env)
    THEN LET freecad_lib_root == env[freecad_lib_root_envvar]
         IN  IF ~IsDir(f, freecad_lib_root)
             THEN Raise(NoResult, "IOError", 71)
             ELSE Return(NoResult, freecad_lib_root, 74)
    ELSE RunDiagnostic(f,
             [NoResult EXCEPT !.spawned = TRUE,
                              !.cmd = freecad_cmd(freecad_executable, env)],
             proc)

\* --------------------------------------------- add_freecad_dirs_to_syspath
\* list.insert(0, x) for every x of items, in the order of items
RECURSIVE InsertEach(_, _)
InsertEach(path, items) ==
    IF items = <<>> THEN path
    ELSE InsertEach(<<Head(items)>> \o path, Tail(items))

\* line 237: the order in which the required subdirectories are inserted
InsertionOrder == Reverse(required_subdirs)

\* line 238 for every d of ds
AbsDirs(root, ds) == [i \in 1..Len(ds) |-> Join(root, <<ds[i]>>)]

\* glob's rule for the pattern "*": names that begin with a dot do not match
IsHidden(name) == name \in {".git"}

\* line 244: glob.glob(os.path.join(root, 'Mod', '*/')), as a set.  The
\* trailing separator of the pattern selects directories only and is kept
\* in every result.
glob_mod_subdirs(f, root) ==
    LET moddir == Join(root, <<"Mod">>)
    IN  IF ~IsDir(f, moddir) THEN {}
        ELSE {Join(Join(moddir, <<Last(c)>>), <<>>) :
                 c \in {x \in Children(f, Canonical(moddir)) :
                           x \in f.dirs /\ ~IsHidden(Last(x))}}

\* the orders in which glob may list a set of results
Orders(S) ==
    {s \in [1..Cardinality(S) -> S] :
        \A i, j \in 1..Cardinality(S) : i # j => s[i] # s[j]}

\* line 248: the entries of ds that are directories
RECURSIVE OnlyDirs(_, _)
OnlyDirs(f, ds) ==
    IF ds = <<>> THEN <<>>
    ELSE (IF IsDir(f, Head(ds)) THEN <<Head(ds)>> ELSE <<>>)
         \o OnlyDirs(f, Tail(ds))

\* the insertions done without regard to the outcome of the resolution
add_freecad_dirs_to_syspath_Eager(path, r, f, mod_subdirs, append_all) ==
    InsertEach(InsertEach(path, AbsDirs(r.value, InsertionOrder)),
               OnlyDirs(f, mod_subdirs))

\* lines 226-249: sys.path after the call.  r is the outcome of line 226;
\* an exception raised there leaves the function before line 237.
\* mod_subdirs is the list glob returned.  append_all is never read.
add_freecad_dirs_to_syspath(path, r, f, mod_subdirs, append_all) ==
    IF r.kind # "return" THEN path
    ELSE InsertEach(InsertEach(path, AbsDirs(r.value, InsertionOrder)),
                    OnlyDirs(f, mod_subdirs))

\* ------------------------------------------------------------ the inputs
SeqsUpTo(S, n) == UNION {[1..k -> S] : k \in 0..n}

Hints == {None, <<"~", SEP, "fc">>}

LibDir == <<SEP, "r", SEP, "lib">>
PathEntries == {LibDir, LibDir \o <<SEP>>, <<SEP, "r", SEP, "Mod">>, <<>>}

\* outputs of the diagnostic script, complete or cut short, and the empty
\* output
Outputs ==
    {<<>>} \cup
    {PrintLines(first \o entries \o sentinels \o version) :
        first \in {<<>>, <<_magic_first_line>>},
        entries \in SeqsUpTo(PathEntries, MaxEntries),
        sentinels \in {<<>>, <<_line_before_sys_version>>,
                       <<_line_before_sys_version, _line_before_sys_version>>},
        version \in {<<<<"3.9.7">>, <<"[GCC]">>>>, <<<<"3.8">>>>}}

\* arbitrary lines after the first sentinel
GenericLines ==
    {_magic_first_line, _line_before_sys_version, LibDir, <<"3.8">>}
GenericOutputs ==
    {PrintLines(<<_magic_first_line>> \o rest) :
        rest \in SeqsUpTo(GenericLines, MaxLines)}

NeverStarted == [launched |-> FALSE, returncode |-> 0, output |-> <<>>]

\* what the subprocess does when started in this environment: fail to
\* start, or exit with a status and an output.  With the override root set
\* no subprocess is described.
ProcChoices(env, outs) ==
    IF freecad_lib_root_envvar \in DOMAIN env THEN {NeverStarted}
    ELSE {NeverStarted}
         \cup [launched : {TRUE}, returncode : {0, 1}, output : outs]

BasePath == <<SEP, "bin">>
Environs ==
    {[PATH |-> BasePath],
     [PATH |-> BasePath, FREECAD_EXECUTABLE |-> <<"~", SEP, "FreeCAD">>],
     [PATH |-> BasePath, FREECAD_LIB_ROOT |-> <<SEP, "r">>],
     [PATH |-> BasePath, FREECAD_LIB_ROOT |-> <<SEP, "nx">>],
     [PATH |-> BasePath, FREECAD_LIB_ROOT |-> <<SEP, "r">>,
      FREECAD_EXECUTABLE |-> <<"~", SEP, "FreeCAD">>]}

\* sys.path of the calling interpreter before the first call
InitialPaths == {<<<<SEP, "usr">>, LibDir>>}

NoCall ==
    [op |-> "none", freecad_executable |-> None, append_all |-> FALSE,
     path_before |-> <<>>]

\* ------------------------------------------------------- the state machine
Init ==
    /\ environ \in Environs
    /\ fs \in FileSystems
    /\ child \in ProcChoices(environ, Outputs)
    /\ sys_path \in InitialPaths
    /\ call = NoCall
    /\ ret = NoResult
    /\ ncalls = 0

\* a call of get_freecad_lib_root
GetRoot ==
    /\ ncalls < MaxCalls
    /\ \E hint \in Hints :
          /\ ret' = get_freecad_lib_root(hint, environ, fs, child)
          /\ call' = [op |-> "get", freecad_executable |-> hint,
                      append_all |-> FALSE, path_before |-> sys_path]
    /\ ncalls' = ncalls + 1
    /\ UNCHANGED <<environ, fs, child, sys_path>>

\* a call of add_freecad_dirs_to_syspath
AddDirsWith(op, hints, flags) ==
    /\ ncalls < MaxCalls
    /\ \E hint \in hints, append_all \in flags :
          LET r == get_freecad_lib_root(hint, environ, fs, child)
          IN  \E mod_subdirs \in Orders(glob_mod_subdirs(fs, r.value)) :
                 /\ ret' = r
                 /\ sys_path' = add_freecad_dirs_to_syspath(
                                    sys_path, r, fs, mod_subdirs, append_all)
                 /\ call' = [op |-> op, freecad_executable |-> hint,
                             append_all |-> append_all,
                             path_before |-> sys_path]
    /\ ncalls' = ncalls + 1
    /\ UNCHANGED <<environ, fs, child>>

AddDirs == AddDirsWith("add", Hints, BOOLEAN)

\* lines 268-269: main()
Main == AddDirsWith("main", {None}, {FALSE})

Next == GetRoot \/ AddDirs \/ Main

Spec == Init /\ [][Next]_vars

\* the parsing of arbitrary captured lines
InitParse ==
    /\ environ = [PATH |-> BasePath]
    /\ fs \in FileSystems
    /\ child \in ProcChoices(environ, GenericOutputs)
    /\ sys_path = <<>>
    /\ call = NoCall
    /\ ret = NoResult
    /\ ncalls = 0

SpecParse == InitParse /\ [][GetRoot]_vars

\* ------------------------------------------------------------ properties
Called == call.op # "none"
Installed == call.op \in {"add", "main"}
Returned == Called /\ ret.kind = "return"
OverrideSet == freecad_lib_root_envvar \in DOMAIN environ

Count(s, x) == Cardinality({i \in DOMAIN s : s[i] = x})

\* the directory named by path string p exists in the file system
NamesDir(p) == p # <<>> /\ Canonical(p) \in fs.dirs

\* p names a directory that directly contains the marker file
HoldsMarker(p) ==
    /\ NamesDir(p)
    /\ Canonical(p) \o <<"FreeCAD.so">> \in fs.files \cup fs.dirs

\* the directory with canonical path c has the three mandatory subdirectories
HasLayout(c) ==
    \A d \in {"Mod", "lib", "Ext"} : c \o <<d>> \in fs.dirs

\* canonical path of the parent directory of the directory p names
ParentOf(p) == SubSeq(Canonical(p), 1, Len(Canonical(p)) - 1)

\* positions of the parsed path list that hold a marker directory
MarkerPositions ==
    {i \in DOMAIN ret.freecad_sys_path : HoldsMarker(ret.freecad_sys_path[i])}

\* the captured lines of the subprocess
CapturedLines == splitlines(child.output)
Captured == Called /\ ret.spawned /\ child.launched
FirstIsSentinel ==
    CapturedLines # <<>> /\ CapturedLines[1] = <<"Freecad python working!">>

\* C1: with FREECAD_LIB_ROOT set no subprocess is started, whatever the
\* executable hint; an existing directory is returned unchanged, anything
\* else fails with IOError.
C1_OverrideSkipsSubprocess ==
    (Called /\ OverrideSet) =>
        /\ ~ret.spawned
        /\ IF NamesDir(environ.FREECAD_LIB_ROOT)
           THEN ret.kind = "return" /\ ret.value = environ.FREECAD_LIB_ROOT
           ELSE ret.kind = "IOError"

C1_Witness ==
    /\ Called /\ OverrideSet /\ call.freecad_executable # None
    /\ ret.kind = "return" /\ ~ret.spawned

\* C2: when exactly one entry of the parsed path list is a directory holding
\* FreeCAD.so and the mandatory subdirectories exist beside it, the call
\* returns the parent directory of that entry, however the entry is written.
C2_ReturnsParentOfEntry ==
    (Called /\ ret.parsed /\ Cardinality(MarkerPositions) = 1) =>
        \A i \in MarkerPositions :
            HasLayout(ParentOf(ret.freecad_sys_path[i])) =>
                /\ ret.kind = "return"
                /\ Canonical(ret.value) = ParentOf(ret.freecad_sys_path[i])

\* C3 as stated: a root returned by any path through the routine has the
\* subdirectories Mod, lib and Ext.
C3_AnyReturnHasLayout ==
    Returned => (ret.value # <<>> /\ HasLayout(Canonical(ret.value)))

\* C3 amended: a root returned by discovery (FREECAD_LIB_ROOT not set) has
\* the subdirectories Mod, lib and Ext; the override root is returned after
\* the directory test alone.
C3_DiscoveredRootHasLayout ==
    (Returned /\ ~OverrideSet) =>
        (ret.value # <<>> /\ HasLayout(Canonical(ret.value)))

C3_Witness == Returned /\ ~OverrideSet /\ ret.line = 204

\* C4: the exit status does not decide the outcome: a first captured line
\* equal to the sentinel leads to parsing, any other captured output (an
\* empty one included) ends in the CalledProcessError, unchanged.
C4_OutputDecides ==
    Captured =>
        IF FirstIsSentinel THEN ret.line >= 138
        ELSE /\ ret.kind = "CalledProcessError"
             /\ ret.value = child.output
             /\ ret.returncode = child.returncode

\* C5: a failed resolution leaves sys.path as it was before the call.
C5_FailureLeavesSysPath ==
    (Installed /\ ret.kind # "return") => sys_path = call.path_before

C5_Witness ==
    /\ Installed /\ ret.kind = "RuntimeError"
    /\ call.path_before # <<>> /\ sys_path = call.path_before

\* C6: after successful calls of add_freecad_dirs_to_syspath sys.path holds
\* exactly one entry for <root>/lib.
C6_OneLibEntry ==
    (Installed /\ ret.kind = "return") =>
        Count(sys_path, Join(ret.value, <<"lib">>)) = 1

\* C7: with append_all=True the added directories follow the entries present
\* before the call; with append_all=False they precede them.
C7_AppendAllAppends ==
    (Installed /\ ret.kind = "return") =>
        LET old == Len(call.path_before)
            new == Len(sys_path)
        IN  /\ new > old
            /\ IF call.append_all
               THEN SubSeq(sys_path, 1, old) = call.path_before
               ELSE SubSeq(sys_path, new - old + 1, new) = call.path_before

\* C8: with no marker directory in the parsed path list the call fails with
\* the not-found IOError; with two or more it fails with the RuntimeError
\* that lists every matching entry; no root is returned.
C8_ZeroOrSeveralCandidates ==
    (Called /\ ret.parsed) =>
        /\ MarkerPositions = {} => (ret.kind = "IOError" /\ ret.line = 182)
        /\ Cardinality(MarkerPositions) >= 2 =>
              /\ ret.kind = "RuntimeError"
              /\ Len(ret.cands) = Cardinality(MarkerPositions)
              /\ \E pos \in [1..Len(ret.cands) -> MarkerPositions] :
                    /\ \A j, k \in 1..Len(ret.cands) : j < k => pos[j] < pos[k]
                    /\ \A j \in 1..Len(ret.cands) :
                          ret.cands[j] = ret.freecad_sys_path[pos[j]]

C8_Witness ==
    /\ Called /\ ret.kind = "RuntimeError"
    /\ Len(ret.cands) = 2 /\ ret.cands[1] # ret.cands[2]

\* C9: after the first sentinel, parsing succeeds exactly when the line
\* 'sys.version:' occurs once among the remaining lines; the parsed path
\* list is then the lines before it and the version string the lines after
\* it joined by newline.
C9_ParseBySecondSentinel ==
    (Captured /\ child.returncode # 0 /\ FirstIsSentinel) =>
        LET rest == Tail(CapturedLines)
            occ == {i \in DOMAIN rest : rest[i] = <<"sys.version:">>}
        IN  /\ ret.parsed <=> Cardinality(occ) = 1
            /\ Cardinality(occ) # 1 =>
                  (ret.kind = "AssertionError" /\ ret.line \in {147, 150})
            /\ ret.parsed =>
                  \A i \in occ :
                     LET after == [j \in 1..(Len(rest) - i) |-> rest[i + j]]
                         v == ret.freecad_sys_version
                     IN  /\ ret.freecad_sys_path = [j \in 1..(i - 1) |-> rest[j]]
                         /\ IF after = <<>> THEN v = <<>>
                            ELSE /\ splitlines(v) = after
                                 /\ v[Len(v)] # NL

C9_Witness ==
    /\ Captured /\ ret.parsed
    /\ Len(ret.freecad_sys_path) >= 1
    /\ Len(splitlines(ret.freecad_sys_version)) >= 2

\* C10: a successful add_freecad_dirs_to_syspath leaves sys.path as: every
\* immediate subdirectory of <root>/Mod that is a directory, then <root>/Mod,
\* <root>/lib, <root>/Ext, then the former sys.path.
C10_FinalSysPath ==
    (Installed /\ ret.kind = "return") =>
        LET root == Canonical(ret.value)
            mod == root \o <<"Mod">>
            n == Len(sys_path) - Len(call.path_before) - 3
        IN  /\ n >= 0
            /\ {Canonical(sys_path[i]) : i \in 1..n}
                  = {c \in Children(fs, mod) : c \in fs.dirs}
            /\ Cardinality({c \in Children(fs, mod) : c \in fs.dirs}) = n
            /\ Canonical(sys_path[n + 1]) = mod
            /\ Canonical(sys_path[n + 2]) = root \o <<"lib">>
            /\ Canonical(sys_path[n + 3]) = root \o <<"Ext">>
            /\ SubSeq(sys_path, n + 4, Len(sys_path)) = call.path_before

====
